---- MODULE Spec2Model ----
(***************************************************************************)
(* Model of the Kafka programs of buzzline-03-nickelias:                   *)
(*   consumers/csv_consumer_nickelias.py   (smoker temperature stream)     *)
(*   consumers/json_consumer_nickelias.py  (chat message stream)           *)
(*   producers/csv_producer_nickelias.py   (replay of the temperature file)*)
(* One run of the model is one run of one of the programs; the variable    *)
(* program says which.  Temperatures are in tenths of a degree F, times in *)
(* seconds.  A JSON value is a tagged record so that numbers, strings and  *)
(* null can be told apart the way Python tells them apart.                 *)
(***************************************************************************)
EXTENDS Integers, Sequences, FiniteSets, TLC

VARIABLES
    program,            \* which script is running
    pc,                 \* position of main(): start, polling, closed, crashed;
                        \* in the producer start, read, rows, closed, exited
    client,             \* the Kafka consumer or producer: none, open, closed
    closes,             \* the number of calls of its close()
    window_size,        \* SMOKER_ROLLING_WINDOW_SIZE as read by get_rolling_window_size
    schema_strict,      \* does DataFrame.vstack reject a frame of another dtype
    rolling_window,     \* main's deque(maxlen=window_size)
    df,                 \* main's DataFrame (rows of [timestamp, temperature])
    history,            \* every reading appended to the window so far (history variable)
    author_counts,      \* module-level defaultdict(int)
    last_message_time,  \* module-level dictionary author -> time of last message
    clock,              \* time.time()
    last_time,          \* process_message's local last_time of the last chat message
    msg,                \* the payload last handed to process_message
    reached,            \* where that call of process_message ended
    alerts,             \* the alert lines it logged, in order
    errors,             \* the number of logger.error lines it logged
    file_exists,        \* is data/smoker_temps.csv there
    file_columns_ok,    \* does its header hold both timestamp and temperature
    file_rows,          \* its data rows
    df_rows,            \* generate_messages' df: the rows of its last read_csv
    row_idx,            \* how many rows of df_rows iter_rows has handed out
    reads_since_yield,  \* calls of read_csv since the last yield (history variable)
    exit_code,          \* the status given to sys.exit, 0 while there was none
    sent                \* the messages handed to producer.send, in order

vars == <<program, pc, client, closes,
          window_size, schema_strict, rolling_window, df, history,
          author_counts, last_message_time, clock, last_time,
          msg, reached, alerts, errors,
          file_exists, file_columns_ok, file_rows, df_rows, row_idx,
          reads_since_yield, exit_code, sent>>

csvVars == <<window_size, schema_strict, rolling_window, df, history>>
chatVars == <<author_counts, last_message_time, clock, last_time>>
callVars == <<msg, reached, alerts, errors>>
fileVars == <<file_exists, file_columns_ok, file_rows>>
genVars == <<df_rows, row_idx, reads_since_yield>>
prodVars == <<fileVars, genVars, exit_code, sent>>
clientVars == <<client, closes>>

----------------------------------------------------------------------------
(* Bounds of the model *)

MaxWindowSize == 3      \* largest configured window capacity explored
MaxHistory == 3         \* readings appended to the window in one run
MaxChatMsgs == 3        \* chat messages counted in one run
MaxClock == 30          \* latest time.time() explored, in seconds
MaxVolumeMsgs == 102    \* chat messages counted in one long run
MaxRows == 2            \* data rows of the temperature file
MaxSent == 5            \* messages sent by the producer in one run
MaxSpin == 2            \* reads of the file in a row without a message

----------------------------------------------------------------------------
(* JSON values *)

None == [tag |-> "none", val |-> 0]
Num(v) == [tag |-> "num", val |-> v]
Str(v) == [tag |-> "str", val |-> v]
IsNum(x) == x.tag = "num"

\* temperatures of the stream: 65.0, 70.0, 139.9, 140.0, 140.2, 150.0
Temps == {650, 700, 1399, 1400, 1402, 1500}
WindowSizes == (-1)..MaxWindowSize

\* text fields (author, message): a string is a sequence of characters
Absent == [tag |-> "none", val |-> <<>>]        \* the key is not in the object
TStr(s) == [tag |-> "str", val |-> s]
TNumber == [tag |-> "num", val |-> <<>>]        \* a JSON number where text is expected
TList == [tag |-> "list", val |-> <<>>]         \* a JSON array (unhashable in Python)

NoMsg == [json |-> "none", temperature |-> None, timestamp |-> None,
          author |-> Absent, message |-> Absent]

\* payloads the temperature topic can deliver as its n-th reading: text that
\* is no JSON (cut off before the closing brace), JSON that is no object, and
\* objects whose temperature is a number, a string or null/absent and whose
\* timestamp is present or null/absent.  The producer's timestamps grow with
\* the rows, so the n-th reading carries timestamp n.
CsvPayloads(n) ==
    {[json |-> "invalid", temperature |-> Num(1500), timestamp |-> Num(1),
      author |-> Absent, message |-> Absent]}
    \cup {[json |-> "nondict", temperature |-> None, timestamp |-> None,
           author |-> Absent, message |-> Absent]}
    \cup {[json |-> "dict", temperature |-> t, timestamp |-> Num(n),
           author |-> Absent, message |-> Absent] :
            t \in {Num(v) : v \in Temps} \cup {Str("hot"), None}}
    \cup {[json |-> "dict", temperature |-> t, timestamp |-> None,
           author |-> Absent, message |-> Absent] :
            t \in {Num(1500), None}}

----------------------------------------------------------------------------
(* csv_consumer_nickelias.py *)

StallThreshold == 2     \* 0.2 F
OvercookedTemp == 1500  \* 150 F
ReadyTemp == 1400       \* 140 F

Alert(kind, ts) == [kind |-> kind, timestamp |-> ts]
Row(ts, t) == [timestamp |-> ts, temperature |-> t]

\* Python raises TypeError when a str is ordered against a number
MixedTypes(a, b) == a.tag # b.tag

\* DequeAppend with the newest value dropped when the window is full
DequeAppendKeepOldest(w, x, maxlen) ==
    IF maxlen = 0 \/ Len(w) = maxlen THEN w ELSE Append(w, x)

\* collections.deque(maxlen=n).append(x)
DequeAppend(w, x, maxlen) ==
    IF maxlen = 0 THEN w
    ELSE IF Len(w) = maxlen THEN Append(Tail(w), x)
    ELSE Append(w, x)

\* polars DataFrame.vstack: a new frame, the receiver is left as it was.  The
\* frame built from two empty lists has columns of no dtype; a polars that
\* checks dtypes raises SchemaError when rows of another dtype are stacked on it.
Vstack(d, new_row, strict) ==
    IF strict /\ Len(d) = 0
    THEN [raised |-> TRUE, df |-> d]
    ELSE [raised |-> FALSE, df |-> Append(d, new_row)]

Range(w) == {w[i] : i \in 1..Len(w)}
SeqMax(w) == CHOOSE x \in Range(w) : \A y \in Range(w) : y.val <= x.val
SeqMin(w) == CHOOSE x \in Range(w) : \A y \in Range(w) : y.val >= x.val

\* detect_stall without its wait for a full window
detect_stall_no_wait(w, size) ==
    IF Len(w) = 0 \/ \E x \in Range(w) : ~IsNum(x)
    THEN [raised |-> TRUE, value |-> FALSE]
    ELSE [raised |-> FALSE,
          value |-> SeqMax(w).val - SeqMin(w).val <= StallThreshold]

\* detect_stall: FALSE while the window is short; max()/min() raise on an empty
\* window and on a window mixing str with numbers, and str - str raises
detect_stall(w, size) ==
    IF Len(w) < size THEN [raised |-> FALSE, value |-> FALSE]
    ELSE IF Len(w) = 0 \/ \E x \in Range(w) : ~IsNum(x)
    THEN [raised |-> TRUE, value |-> FALSE]
    ELSE [raised |-> FALSE,
          value |-> SeqMax(w).val - SeqMin(w).val <= StallThreshold]

\* first loop of check_temperature_alerts: rows i = 1 .. len(df)-1 (0-based)
RECURSIVE DropAlerts(_, _)
DropAlerts(d, i) ==
    IF i > Len(d) THEN <<>>
    ELSE (IF d[i].temperature.val < d[i-1].temperature.val
          THEN <<Alert("TemperatureDrop", d[i].timestamp)>> ELSE <<>>)
         \o DropAlerts(d, i + 1)

\* the threshold tests as two separate ifs, without the elif
ThresholdAlertNoElif(row) ==
    (IF row.temperature.val >= OvercookedTemp
     THEN <<Alert("OverTemp", row.timestamp)>> ELSE <<>>)
    \o (IF row.temperature.val >= ReadyTemp
        THEN <<Alert("ReadyThreshold", row.timestamp)>> ELSE <<>>)

\* second loop of check_temperature_alerts: if >= 150 ... elif >= 140
ThresholdAlert(row) ==
    IF row.temperature.val >= OvercookedTemp
    THEN <<Alert("OverTemp", row.timestamp)>>
    ELSE IF row.temperature.val >= ReadyTemp
    THEN <<Alert("ReadyThreshold", row.timestamp)>>
    ELSE <<>>

RECURSIVE ThresholdAlerts(_, _)
ThresholdAlerts(d, i) ==
    IF i > Len(d) THEN <<>>
    ELSE ThresholdAlert(d[i]) \o ThresholdAlerts(d, i + 1)

\* check_temperature_alerts logging every alert when it is appended and again
\* in the loop at its end
check_temperature_alerts_relogged(d) ==
    IF \/ \E i \in 2..Len(d) : MixedTypes(d[i].temperature, d[i-1].temperature)
       \/ \E i \in 1..Len(d) : ~IsNum(d[i].temperature)
    THEN [raised |-> TRUE, alerts |-> <<>>]
    ELSE [raised |-> FALSE,
          alerts |-> DropAlerts(d, 2) \o ThresholdAlerts(d, 1)
                        \o DropAlerts(d, 2) \o ThresholdAlerts(d, 1)]

\* check_temperature_alerts: the alerts are logged only after both loops, so
\* a TypeError in either loop logs none of them
check_temperature_alerts(d) ==
    IF \/ \E i \in 2..Len(d) : MixedTypes(d[i].temperature, d[i-1].temperature)
       \/ \E i \in 1..Len(d) : ~IsNum(d[i].temperature)
    THEN [raised |-> TRUE, alerts |-> <<>>]
    ELSE [raised |-> FALSE, alerts |-> DropAlerts(d, 2) \o ThresholdAlerts(d, 1)]

\* a json.loads that takes what it can from text that is no JSON
JsonDecodeErrorNever(m) == FALSE

\* json.loads(message) raises JSONDecodeError
JsonDecodeError(m) == m.json = "invalid"

\* lines 81-83: temperature is None or timestamp is None
InvalidFormat(m) == m.temperature = None \/ m.timestamp = None

\* process_message of the csv consumer: what the call leaves behind
CsvProcess(m, w, size, d, strict) ==
    IF JsonDecodeError(m)
    THEN [window |-> w, reached |-> "json_error", alerts |-> <<>>, errors |-> 1]
    ELSE IF m.json = "nondict"      \* data.get raises AttributeError
    THEN [window |-> w, reached |-> "error_before_update", alerts |-> <<>>, errors |-> 1]
    ELSE IF InvalidFormat(m)
    THEN [window |-> w, reached |-> "invalid_format", alerts |-> <<>>, errors |-> 1]
    ELSE
      LET w2 == DequeAppend(w, m.temperature, size)
          st == Vstack(d, Row(m.timestamp, m.temperature), strict)
          stall == detect_stall(w2, size)
          stallAlerts == IF stall.value
                         THEN <<Alert("StallDetected", m.timestamp)>> ELSE <<>>
          chk == check_temperature_alerts(st.df)
      IN  IF st.raised \/ stall.raised
          THEN [window |-> w2, reached |-> "error_after_update",
                alerts |-> <<>>, errors |-> 1]
          ELSE IF chk.raised
          THEN [window |-> w2, reached |-> "error_after_update",
                alerts |-> stallAlerts, errors |-> 1]
          ELSE [window |-> w2, reached |-> "done",
                alerts |-> stallAlerts \o chk.alerts, errors |-> 0]

Pushes(m) == ~JsonDecodeError(m) /\ m.json = "dict" /\ ~InvalidFormat(m)

\* main, lines 106-119: a negative maxlen makes deque() raise ValueError
\* before the Kafka consumer exists
CsvStart ==
    /\ program = "csv_consumer" /\ pc = "start"
    /\ pc' = IF window_size < 0 THEN "crashed" ELSE "polling"
    /\ client' = IF window_size < 0 THEN "none" ELSE "open"
    /\ UNCHANGED <<program, closes, csvVars, chatVars, callVars, prodVars>>

\* main, lines 124-127: one message of the topic handed to process_message.
\* Line 90 rebinds process_message's own name df, so main's df stays empty.
CsvReceive(m) ==
    /\ program = "csv_consumer" /\ pc = "polling"
    /\ Pushes(m) => Len(history) < MaxHistory
    /\ LET r == CsvProcess(m, rolling_window, window_size, df, schema_strict)
       IN  /\ rolling_window' = r.window
           /\ reached' = r.reached
           /\ alerts' = r.alerts
           /\ errors' = r.errors
    /\ history' = IF Pushes(m) THEN Append(history, m.temperature) ELSE history
    /\ msg' = m
    /\ UNCHANGED <<program, pc, clientVars, window_size, schema_strict, df,
                   chatVars, prodVars>>

\* the loop left without consumer.close()
ConsumerStopNoClose ==
    /\ pc = "polling"
    /\ pc' = "closed"
    /\ UNCHANGED <<program, clientVars, csvVars, chatVars, callVars, prodVars>>

\* main, lines 128-134 (json consumer 163-169): KeyboardInterrupt or an error
\* raised by the iterator, then consumer.close() in the finally block
ConsumerStop ==
    /\ pc = "polling"
    /\ pc' = "closed"
    /\ client' = "closed"
    /\ closes' = closes + 1
    /\ UNCHANGED <<program, csvVars, chatVars, callVars, prodVars>>

----------------------------------------------------------------------------
(* json_consumer_nickelias.py *)

MESSAGE_THRESHOLD == 100
FREQUENT_TIME_FRAME == 10

Alice == <<"A", "l", "i", "c", "e">>
Bob == <<"b", "o", "b">>
Unknown == <<"u", "n", "k", "n", "o", "w", "n">>
AuthorKeys == {Alice, Bob, Unknown}

Hello == <<"h", "i">>
Urgent == <<"i", "s", " ", "U", "R", "G", "E", "N", "T", "!">>
AnError == <<"E", "r", "r", "o", "r", "s">>

ChatTimestamps == {Num(100), Num(103), Num(115)}
StartTimes == {0}       \* time.time() when the consumer starts, seconds since the epoch
Ticks == {10}           \* seconds that pass between two messages

\* payloads the chat topic can deliver: text that is no JSON, JSON that is no
\* object, and objects whose author is a string, absent or an array, whose
\* message is a string, absent or a number, and whose timestamp is any
ChatPayloads ==
    {[json |-> "invalid", temperature |-> None, timestamp |-> Num(100),
      author |-> TStr(Bob), message |-> TStr(Urgent)]}
    \cup {[json |-> "nondict", temperature |-> None, timestamp |-> None,
           author |-> Absent, message |-> Absent]}
    \cup {[json |-> "dict", temperature |-> None, timestamp |-> ts,
           author |-> a, message |-> TStr(Hello)] :
            ts \in ChatTimestamps \cup {None},
            a \in {TStr(Alice), TStr(Bob), Absent, TList}}
    \cup {[json |-> "dict", temperature |-> None, timestamp |-> Num(100),
           author |-> a, message |-> c] :
            a \in {TStr(Alice), TStr(Bob), Absent, TList},
            c \in {TStr(Urgent), TStr(AnError), Absent, TNumber}}

\* str.lower() on the characters these strings use
LowerChar(c) ==
    CASE c = "A" -> "a" [] c = "E" -> "e" [] c = "G" -> "g" [] c = "N" -> "n"
      [] c = "R" -> "r" [] c = "T" -> "t" [] c = "U" -> "u" [] OTHER -> c
Lower(s) == [i \in 1..Len(s) |-> LowerChar(s[i])]

\* sub in s
Contains(s, sub) ==
    \E i \in 1..(Len(s) - Len(sub) + 1) : SubSeq(s, i, i + Len(sub) - 1) = sub

\* message_dict["author"] in place of .get: no default for an absent author
GetAuthorNoDefault(m) == m.author

\* message_dict.get("author", "unknown"), message_dict.get("message", "")
GetAuthor(m) == IF m.author = Absent THEN TStr(Unknown) ELSE m.author
GetMessage(m) == IF m.message = Absent THEN TStr(<<>>) ELSE m.message

\* one last-seen time shared by all authors in place of one per author
LastTimeOfAnyone(last, a) ==
    LET seen == {0} \cup {last[b].val : b \in {c \in DOMAIN last : last[c] # None}}
    IN  CHOOSE t \in seen : \A u \in seen : u <= t

\* last_message_time.get(author, 0)
LastTimeOf(last, a) == IF last[a] = None THEN 0 ELSE last[a].val

\* the frequency test with < in place of <=
FrequentAlertStrict(now, last_t) ==
    IF now - last_t < FREQUENT_TIME_FRAME
    THEN <<Alert("FrequentMessages", None)>> ELSE <<>>

\* lines 105-108
FrequentAlert(now, last_t) ==
    IF now - last_t <= FREQUENT_TIME_FRAME
    THEN <<Alert("FrequentMessages", None)>> ELSE <<>>

\* the author test without lower()
ImportantAlertCaseSensitive(a) ==
    IF a = <<"a", "l", "i", "c", "e">>
    THEN <<Alert("ImportantAuthor", None)>> ELSE <<>>

\* lines 113-114
ImportantAlert(a) ==
    IF Lower(a) = <<"a", "l", "i", "c", "e">>
    THEN <<Alert("ImportantAuthor", None)>> ELSE <<>>

\* the volume test with > in place of >=
VolumeAlertAbove(count) ==
    IF count > MESSAGE_THRESHOLD
    THEN <<Alert("VolumeThreshold", None)>> ELSE <<>>

\* lines 117-118
VolumeAlert(count) ==
    IF count >= MESSAGE_THRESHOLD
    THEN <<Alert("VolumeThreshold", None)>> ELSE <<>>

\* lines 121-122
KeywordAlert(content) ==
    IF \/ Contains(Lower(content), <<"u", "r", "g", "e", "n", "t">>)
       \/ Contains(Lower(content), <<"e", "r", "r", "o", "r">>)
    THEN <<Alert("KeywordMatch", None)>> ELSE <<>>

\* process_message of the json consumer: what the call leaves behind.  The
\* alerts are logged one by one, so those logged before an exception stay.
ChatProcess(m, counts, last, now) ==
    LET same(r, n) == [counts |-> counts, last |-> last, last_time |-> 0,
                       reached |-> r, alerts |-> <<>>, errors |-> n]
    IN
    IF JsonDecodeError(m) THEN same("json_error", 1)
    ELSE IF m.json = "nondict" THEN same("not_a_dict", 1)
    ELSE IF GetAuthor(m).tag # "str"    \* author_counts[author]: unhashable type
    THEN same("error_before_update", 1)
    ELSE
      LET a == GetAuthor(m).val
          content == GetMessage(m)
          counts2 == [counts EXCEPT ![a] = @ + 1]
          last_t == LastTimeOf(last, a)
          last2 == [last EXCEPT ![a] = Num(now)]
          first3 == FrequentAlert(now, last_t) \o ImportantAlert(a)
                        \o VolumeAlert(counts2[a])
      IN  IF content.tag # "str"       \* message_content.lower(): AttributeError
          THEN [counts |-> counts2, last |-> last2, last_time |-> last_t,
                reached |-> "error_after_update", alerts |-> first3, errors |-> 1]
          ELSE [counts |-> counts2, last |-> last2, last_time |-> last_t,
                reached |-> "done",
                alerts |-> first3 \o KeywordAlert(content.val), errors |-> 0]

Counts(m) == m.json = "dict" /\ GetAuthor(m).tag = "str"

TotalCount == author_counts[Alice] + author_counts[Bob] + author_counts[Unknown]

\* main, lines 146-154
ChatStart ==
    /\ program = "json_consumer" /\ pc = "start"
    /\ pc' = "polling"
    /\ client' = "open"
    /\ UNCHANGED <<program, closes, csvVars, chatVars, callVars, prodVars>>

\* main, lines 159-162: one message of the topic handed to process_message
ChatHandle(m) ==
    /\ program = "json_consumer" /\ pc = "polling"
    /\ LET r == ChatProcess(m, author_counts, last_message_time, clock)
       IN  /\ author_counts' = r.counts
           /\ last_message_time' = r.last
           /\ last_time' = r.last_time
           /\ reached' = r.reached
           /\ alerts' = r.alerts
           /\ errors' = r.errors
    /\ msg' = m
    /\ UNCHANGED <<program, pc, clientVars, csvVars, clock, prodVars>>

\* a message of a short run of the chat topic
ChatReceive(m) ==
    /\ Counts(m) => TotalCount < MaxChatMsgs
    /\ ChatHandle(m)

\* a message of a long run of the chat topic: alice writes again and again,
\* bob now and then
VolumePayloads ==
    {[json |-> "dict", temperature |-> None, timestamp |-> Num(100),
      author |-> TStr(Alice), message |-> c] :
        c \in {TStr(Hello), TStr(Urgent), TStr(AnError)}}
    \cup {[json |-> "dict", temperature |-> None, timestamp |-> Num(100),
            author |-> TStr(Bob), message |-> TStr(Hello)]}

VolumeReceive(m) ==
    /\ TotalCount < MaxVolumeMsgs
    /\ m.author = TStr(Bob) => author_counts[Bob] < MaxChatMsgs
    /\ ChatHandle(m)

\* time passes between two messages
Tick(d) ==
    /\ program = "json_consumer" /\ pc = "polling"
    /\ clock + d <= MaxClock
    /\ clock' = clock + d
    /\ UNCHANGED <<program, pc, clientVars, csvVars, author_counts,
                   last_message_time, last_time, callVars, prodVars>>

----------------------------------------------------------------------------
(* csv_producer_nickelias.py *)

\* a cell of an integer column, in whole degrees
IntCell(v) == [tag |-> "int", val |-> v]

\* the data files: up to MaxRows rows, the i-th with timestamp i; read_csv
\* gives the temperature column one dtype, so its cells are all integers
\* (150) or all floats (70.5), and an empty cell is null in both
FileRow(i, c) == [timestamp |-> Num(i), temperature |-> c]
FilesOver(cells) ==
    UNION {{[i \in 1..n |-> FileRow(i, f[i])] : f \in [1..n -> cells]} :
             n \in 0..MaxRows}
DataFiles == FilesOver({IntCell(150), None}) \cup FilesOver({Num(705), None})

\* float(row["temperature"]), line 63: TypeError for a null cell
FloatRaises(c) == c.tag \notin {"int", "num"}
Float(c) == IF c.tag = "int" THEN Num(10 * c.val) ELSE c

\* lines 61-64
Message(row) == [timestamp |-> row.timestamp,
                 temperature |-> Float(row.temperature)]

StartOutcomes == {"ok", "no_producer", "no_topic"}

\* main, lines 85-99: the file is missing, create_kafka_producer gives nothing,
\* or create_kafka_topic raises; the last exit leaves the producer open
ProducerStart(o) ==
    /\ program = "producer" /\ pc = "start"
    /\ IF ~file_exists
       THEN pc' = "exited" /\ exit_code' = 1 /\ client' = "none"
       ELSE IF o = "no_producer"
       THEN pc' = "exited" /\ exit_code' = 3 /\ client' = "none"
       ELSE IF o = "no_topic"
       THEN pc' = "exited" /\ exit_code' = 1 /\ client' = "open"
       ELSE pc' = "read" /\ exit_code' = exit_code /\ client' = "open"
    /\ UNCHANGED <<program, closes, csvVars, chatVars, callVars, fileVars,
                   genVars, sent>>

\* generate_messages, lines 50-58 and 67-69: one pass of the while loop up to
\* the for loop.  sys.exit raises SystemExit, which leaves main's loop through
\* the finally block of lines 111-113.
GenRead ==
    /\ program = "producer" /\ pc = "read"
    /\ IF ~file_exists \/ ~file_columns_ok
       THEN /\ exit_code' = 1
            /\ pc' = "closed" /\ client' = "closed" /\ closes' = closes + 1
            /\ UNCHANGED genVars
       ELSE /\ reads_since_yield < MaxSpin
            /\ df_rows' = file_rows
            /\ row_idx' = 0
            /\ reads_since_yield' = reads_since_yield + 1
            /\ pc' = "rows"
            /\ UNCHANGED <<exit_code, clientVars>>
    /\ UNCHANGED <<program, csvVars, chatVars, callVars, fileVars, sent>>

\* generate_messages, lines 60-66 and 70-72, with main's loop body, lines
\* 104-106: the next row is converted, yielded and sent; after the last row
\* the while loop starts over
GenNextRow ==
    /\ program = "producer" /\ pc = "rows"
    /\ IF row_idx = Len(df_rows)
       THEN /\ pc' = "read"
            /\ UNCHANGED <<row_idx, reads_since_yield, exit_code, sent,
                           clientVars>>
       ELSE LET row == df_rows[row_idx + 1]
            IN  IF FloatRaises(row.temperature)
                THEN /\ exit_code' = 3
                     /\ pc' = "closed" /\ client' = "closed"
                     /\ closes' = closes + 1
                     /\ UNCHANGED <<row_idx, reads_since_yield, sent>>
                ELSE /\ Len(sent) < MaxSent
                     /\ sent' = Append(sent, Message(row))
                     /\ row_idx' = row_idx + 1
                     /\ reads_since_yield' = 0
                     /\ UNCHANGED <<pc, exit_code, clientVars>>
    /\ UNCHANGED <<program, csvVars, chatVars, callVars, fileVars, df_rows>>

\* the data file is deleted while the producer runs
FileRemoved ==
    /\ program = "producer" /\ pc \in {"read", "rows"}
    /\ file_exists
    /\ file_exists' = FALSE
    /\ UNCHANGED <<program, pc, clientVars, csvVars, chatVars, callVars,
                   file_columns_ok, file_rows, genVars, exit_code, sent>>

\* main, lines 107-113: KeyboardInterrupt or an error raised by send, then
\* producer.close() in the finally block
ProducerStop ==
    /\ program = "producer" /\ pc \in {"read", "rows"}
    /\ pc' = "closed"
    /\ client' = "closed"
    /\ closes' = closes + 1
    /\ UNCHANGED <<program, csvVars, chatVars, callVars, prodVars>>

----------------------------------------------------------------------------
(* The runs *)

Init ==
    /\ program \in {"csv_consumer", "json_consumer", "producer"}
    /\ pc = "start"
    /\ client = "none"
    /\ closes = 0
    /\ window_size \in (IF program = "csv_consumer" THEN WindowSizes ELSE {0})
    /\ schema_strict \in (IF program = "csv_consumer" THEN BOOLEAN ELSE {FALSE})
    /\ rolling_window = <<>>
    /\ df = <<>>
    /\ history = <<>>
    /\ author_counts = [a \in AuthorKeys |-> 0]
    /\ last_message_time = [a \in AuthorKeys |-> None]
    /\ clock \in (IF program = "json_consumer" THEN StartTimes ELSE {0})
    /\ last_time = 0
    /\ msg = NoMsg
    /\ reached = "none"
    /\ alerts = <<>>
    /\ errors = 0
    /\ file_exists \in (IF program = "producer" THEN BOOLEAN ELSE {FALSE})
    /\ file_columns_ok \in (IF program = "producer" THEN BOOLEAN ELSE {FALSE})
    /\ file_rows \in (IF program = "producer" THEN DataFiles ELSE {<<>>})
    /\ df_rows = <<>>
    /\ row_idx = 0
    /\ reads_since_yield = 0
    /\ exit_code = 0
    /\ sent = <<>>

Next ==
    \/ CsvStart
    \/ \E m \in CsvPayloads(Len(history) + 1) : CsvReceive(m)
    \/ ChatStart
    \/ \E m \in ChatPayloads : ChatReceive(m)
    \/ \E d \in Ticks : Tick(d)
    \/ ConsumerStop
    \/ \E o \in StartOutcomes : ProducerStart(o)
    \/ GenRead
    \/ GenNextRow
    \/ FileRemoved
    \/ ProducerStop

Spec == Init /\ [][Next]_vars

\* a long run of the json consumer
InitVolume == Init /\ program = "json_consumer"

NextVolume ==
    \/ ChatStart
    \/ \E m \in VolumePayloads : VolumeReceive(m)
    \/ \E d \in Ticks : Tick(d)
    \/ ConsumerStop

SpecVolume == InitVolume /\ [][NextVolume]_vars

----------------------------------------------------------------------------
(* Properties *)

HasAlert(k) == \E i \in 1..Len(alerts) : alerts[i].kind = k
HasAlertNext(k) == \E i \in 1..Len(alerts') : alerts'[i].kind = k

\* a step of the polling loop that hands msg' to process_message
CsvStep == program = "csv_consumer" /\ pc = "polling" /\ pc' = "polling"
ChatStep == program = "json_consumer" /\ pc = "polling" /\ pc' = "polling"
              /\ clock' = clock

\* the last payload was taken into the window and its temperature is a number
AcceptedReading ==
    /\ program = "csv_consumer"
    /\ msg.json = "dict" /\ msg.timestamp # None /\ IsNum(msg.temperature)

AllNumeric(w) == \A i \in 1..Len(w) : IsNum(w[i])

\* C1: while reading i >= 2 is processed a TemperatureDrop alert is emitted
\* exactly when reading i-1 was strictly greater than reading i, and none is
\* emitted for the first reading
C1_DropOnConsecutiveReadings ==
    (AcceptedReading /\ AllNumeric(history)) =>
        LET n == Len(history)
        IN  HasAlert("TemperatureDrop") <=>
                (n >= 2 /\ history[n - 1].val > history[n].val)

\* C2: the rolling window holds exactly the last min(n, capacity) of the n
\* readings appended so far, in arrival order, and is never longer than capacity
C2_WindowIsTailOfHistory ==
    (program = "csv_consumer" /\ window_size >= 0) =>
        LET n == Len(history)
            k == IF n < window_size THEN n ELSE window_size
        IN  /\ Len(rolling_window) <= window_size
            /\ rolling_window = SubSeq(history, n - k + 1, n)

\* C2 witness: more readings than the capacity arrived and the oldest was evicted
C2_Witness ==
    /\ window_size = 2 /\ Len(history) = 3
    /\ rolling_window = <<history[2], history[3]>>
    /\ history[1] # history[2]

\* C3: for an accepted reading that leaves the window full, StallDetected is
\* emitted iff max(window) - min(window) <= stallThreshold on the window that
\* already holds the reading
C3_StallIffRangeWithinThreshold ==
    (AcceptedReading /\ window_size >= 1 /\ Len(rolling_window) = window_size
        /\ AllNumeric(rolling_window)) =>
        (HasAlert("StallDetected") <=>
            \A i, j \in 1..Len(rolling_window) :
                rolling_window[i].val - rolling_window[j].val <= StallThreshold)

\* C4: no StallDetected alert while fewer than capacity readings have been
\* appended to the window
C4_NoStallBeforeFull ==
    (program = "csv_consumer" /\ Len(history) < window_size) =>
        ~HasAlert("StallDetected")

\* C4 witness: two equal readings processed to the end with a capacity of three
C4_Witness ==
    /\ window_size = 3 /\ reached = "done"
    /\ history = <<Num(1400), Num(1400)>>
    /\ ~HasAlert("StallDetected")

\* C5: an accepted reading t yields OverTemp exactly when t >= 150 and
\* ReadyThreshold exactly when 140 <= t < 150
C5_ThresholdAlerts ==
    AcceptedReading =>
        /\ HasAlert("OverTemp") <=> msg.temperature.val >= 1500
        /\ HasAlert("ReadyThreshold") <=>
              (msg.temperature.val >= 1400 /\ msg.temperature.val < 1500)

\* C6: a JSON object whose temperature or timestamp is missing, or whose
\* temperature is not a number, leaves the rolling window unchanged
C6_WrongTypeRejected ==
    [][(CsvStep /\ msg'.json = "dict"
          /\ (msg'.temperature = None \/ msg'.timestamp = None
                \/ ~IsNum(msg'.temperature)))
        => rolling_window' = rolling_window]_vars

\* C7: in both consumers a payload that is no JSON is reported by exactly one
\* error, emits no alert, leaves the window, the frame, the author counts and
\* the last-message times unchanged and leaves the loop polling
C7_InvalidJsonIsolated ==
    [][(pc = "polling" /\ msg' # msg /\ msg'.json = "invalid") =>
        /\ pc' = "polling"
        /\ errors' = 1 /\ alerts' = <<>>
        /\ UNCHANGED <<rolling_window, df, history, author_counts,
                       last_message_time>>]_vars

\* C7 witness: an invalid payload arrived after state had been built up, in
\* either consumer
C7_Witness ==
    /\ msg.json = "invalid" /\ errors = 1 /\ pc = "polling"
    /\ \/ Len(rolling_window) = 2
       \/ author_counts[Bob] = 2

C9_AtomicPerPayload ==
    [][(CsvStep \/ ChatStep) =>
        \/ UNCHANGED <<rolling_window, author_counts, last_message_time>>
        \/ reached' = "done" /\ errors' = 0]_vars

\* C10: FrequentMessages is decided on the events' own timestamps: of two
\* consecutive chat events of one author the second yields the alert exactly
\* when the timestamp fields are at most 10 seconds apart, and after each chat
\* event the author's last-message time equals the event's timestamp
C10_FrequentByEventTimestamp ==
    [][(ChatStep /\ msg'.json = "dict" /\ msg'.author.tag = "str"
          /\ msg'.timestamp # None)
        => /\ last_message_time'[msg'.author.val] = msg'.timestamp
           /\ (msg.json = "dict" /\ msg.author = msg'.author
                 /\ msg.timestamp # None)
              => (HasAlertNext("FrequentMessages") <=>
                    msg'.timestamp.val - msg.timestamp.val
                        <= FREQUENT_TIME_FRAME)]_vars

\* C10 as amended: FrequentMessages is decided on the consumer's clock: a
\* counted chat event yields the alert exactly when the time it is processed
\* at is at most 10 seconds after the time the previous event of its author
\* was processed at (after time 0 when there was none), and afterwards the
\* author's last-message time equals the processing time
C10_FrequentByProcessingTime ==
    [][(ChatStep /\ msg'.json = "dict" /\ msg'.author.tag \in {"str", "none"})
        => LET a == IF msg'.author = Absent THEN Unknown ELSE msg'.author.val
               before == IF last_message_time[a] = None THEN 0
                         ELSE last_message_time[a].val
           IN  /\ last_message_time'[a] = Num(clock)
               /\ HasAlertNext("FrequentMessages") <=> clock - before <= 10]_vars

\* C10 witness: two events of bob whose processing times are 10 seconds apart
\* while the second event's timestamp field says otherwise
C10_Witness ==
    /\ program = "json_consumer" /\ msg.author = TStr(Bob)
    /\ author_counts[Bob] = 2 /\ HasAlert("FrequentMessages")
    /\ clock = 30 /\ last_time = 20
    /\ msg.timestamp = Num(115)

\* the last payload was counted for its author (a string, or absent and
\* counted as "unknown"); LastAuthor is that author
CountedEvent ==
    /\ program = "json_consumer"
    /\ msg.json = "dict" /\ msg.author.tag \in {"str", "none"}
LastAuthor == IF msg.author = Absent THEN Unknown ELSE msg.author.val

\* C11: FrequentMessages is never emitted for the first counted message of
\* an author, whatever the current time
C11_NoFrequentOnFirstMessage ==
    (CountedEvent /\ author_counts[LastAuthor] = 1) =>
        ~HasAlert("FrequentMessages")

\* C12: while an author's k-th counted message is processed VolumeThreshold is
\* emitted iff k >= 100: first on the 100th message, then on every later one,
\* never for an author with fewer than 100 messages
C12_VolumeIffHundredOrMore ==
    CountedEvent =>
        (HasAlert("VolumeThreshold") <=> author_counts[LastAuthor] >= 100)

\* C12 witness: alice's 100th message raised the alert while bob has written less
C12_Witness ==
    /\ CountedEvent /\ LastAuthor = Alice
    /\ author_counts[Alice] = 100 /\ author_counts[Bob] = 2
    /\ HasAlert("VolumeThreshold")

\* C13: for a counted chat event the alerts are
\* exactly FrequentMessages, ImportantAuthor (author is "alice" in any case),
\* VolumeThreshold and KeywordMatch (message holds "urgent" or "error" in any
\* case), each one iff its own condition holds, once, in that order
C13_RulesIndependentInOrder ==
    [][(ChatStep /\ msg'.json = "dict" /\ msg'.author.tag \in {"str", "none"})
        => LET a == IF msg'.author = Absent THEN Unknown ELSE msg'.author.val
               before == IF last_message_time[a] = None THEN 0
                         ELSE last_message_time[a].val
               one(cond, kind) ==
                   IF cond THEN <<[kind |-> kind, timestamp |-> None]>>
                   ELSE <<>>
           IN  alerts' =
                  one(clock - before <= 10, "FrequentMessages")
                  \o one(a \in {<<"A", "l", "i", "c", "e">>,
                                <<"a", "l", "i", "c", "e">>}, "ImportantAuthor")
                  \o one(author_counts[a] + 1 >= 100, "VolumeThreshold")
                  \o one(msg'.message \in {TStr(Urgent), TStr(AnError)},
                         "KeywordMatch")]_vars

\* C13 witness: one message raised all four alerts, another of the same author
\* only some of them
C13_Witness ==
    /\ CountedEvent /\ Len(alerts) = 4
    /\ alerts[1].kind = "FrequentMessages" /\ alerts[2].kind = "ImportantAuthor"
    /\ alerts[3].kind = "VolumeThreshold" /\ alerts[4].kind = "KeywordMatch"

\* alerts[i] comes before alerts[j] only if rank puts its kind first
InRankOrder(rank(_)) ==
    \A i, j \in 1..Len(alerts) :
        i < j => rank(alerts[i].kind) < rank(alerts[j].kind)

DropFirstRank(k) ==
    CASE k = "TemperatureDrop" -> 1
      [] k \in {"OverTemp", "ReadyThreshold"} -> 2
      [] k = "StallDetected" -> 3
      [] OTHER -> 0

StallFirstRank(k) ==
    CASE k = "StallDetected" -> 1
      [] k = "TemperatureDrop" -> 2
      [] k \in {"OverTemp", "ReadyThreshold"} -> 3
      [] OTHER -> 0

\* C14: the alerts of a reading are emitted once each in the order
\* TemperatureDrop, then OverTemp or ReadyThreshold, then StallDetected
C14_StallLast ==
    program = "csv_consumer" => InRankOrder(DropFirstRank)

\* C14 as amended: the alerts of a reading are emitted once each in the order
\* StallDetected, then TemperatureDrop, then OverTemp or ReadyThreshold
C14_StallFirst ==
    program = "csv_consumer" => InRankOrder(StallFirstRank)

\* C14 witness: a reading of 140.0 that fills a window of one raised
\* StallDetected and then ReadyThreshold
C14_Witness ==
    /\ AcceptedReading /\ Len(alerts) = 2
    /\ alerts[1].kind = "StallDetected" /\ alerts[2].kind = "ReadyThreshold"

\* C15: the temperature consumer never polls with a window capacity <= 0
C15_NoPollingWithoutCapacity ==
    (program = "csv_consumer" /\ pc = "polling") => window_size >= 1

\* C16: every alert logged for a reading carries the timestamp of that
\* reading, and no kind of alert is logged twice for it
C16_AlertsOfCurrentReading ==
    program = "csv_consumer" =>
        /\ \A i \in 1..Len(alerts) : alerts[i].timestamp = msg.timestamp
        /\ \A i, j \in 1..Len(alerts) :
              i # j => alerts[i].kind # alerts[j].kind

\* C16 witness: the second of two readings raised two alerts, both with its
\* own timestamp, after the first reading had raised its own
C16_Witness ==
    /\ AcceptedReading /\ window_size = 1
    /\ history = <<Num(1500), Num(1400)>> /\ msg.timestamp = Num(2)
    /\ Len(alerts) = 2 /\ alerts[1].timestamp = Num(2)

\* C17: a chat event of author a leaves the count and the last-seen time of
\* every other author as they were and raises a's count by exactly 1; no
\* count ever decreases; FrequentMessages and VolumeThreshold for the event
\* depend on a's own last-seen time and count only
C17_PerAuthorIsolation ==
    [][/\ \A b \in AuthorKeys : author_counts'[b] >= author_counts[b]
       /\ (ChatStep /\ msg'.json = "dict" /\ msg'.author.tag \in {"str", "none"})
            => LET a == IF msg'.author = Absent THEN Unknown ELSE msg'.author.val
                   before == IF last_message_time[a] = None THEN 0
                             ELSE last_message_time[a].val
               IN  /\ author_counts'[a] = author_counts[a] + 1
                   /\ \A b \in AuthorKeys \ {a} :
                         /\ author_counts'[b] = author_counts[b]
                         /\ last_message_time'[b] = last_message_time[b]
                   /\ HasAlertNext("FrequentMessages") <=> clock - before <= 10
                   /\ HasAlertNext("VolumeThreshold")
                         <=> author_counts[a] + 1 >= 100]_vars

\* C17 witness: alice wrote at 0 and again at 20, right after bob wrote at 20;
\* bob's message did not make alice's second one frequent
C17_Witness ==
    /\ CountedEvent /\ LastAuthor = Alice
    /\ author_counts[Alice] = 2 /\ author_counts[Bob] = 1
    /\ last_message_time[Alice] = Num(20) /\ last_message_time[Bob] = Num(20)
    /\ last_time = 0 /\ ~HasAlert("FrequentMessages")

\* C18: while the data file is readable and has both columns, the generator
\* does not end the process, does not read the file twice in a row without a
\* message in between, and the k-th message sent is the k-th row of the
\* endless repetition of the file's rows, with exactly the fields timestamp
\* and temperature (the temperature as a float)
C18_ReplaysWithoutStopping ==
    (program = "producer" /\ pc \in {"read", "rows", "closed"}
        /\ file_exists /\ file_columns_ok)
    => /\ exit_code = 0
       /\ reads_since_yield <= 1
       /\ \A k \in 1..Len(sent) :
            LET row == file_rows[((k - 1) % Len(file_rows)) + 1]
            IN  /\ DOMAIN sent[k] = {"timestamp", "temperature"}
                /\ sent[k].timestamp = row.timestamp
                /\ sent[k].temperature =
                      IF row.temperature.tag = "int"
                      THEN Num(10 * row.temperature.val)
                      ELSE row.temperature

\* C19: a Kafka client is closed at most once; every step that leaves the
\* polling or sending loop closes the open client, exactly once; after the
\* close no message is processed or sent and the client stays closed
C19_ClosedOnceOnLeavingLoop ==
    [][/\ closes' <= 1
       /\ (pc \in {"polling", "read", "rows"}
              /\ pc' \notin {"polling", "read", "rows"})
            => (client = "open" /\ client' = "closed" /\ closes' = closes + 1)
       /\ client = "closed"
            => (client' = "closed" /\ UNCHANGED <<callVars, sent>>
                   /\ UNCHANGED <<rolling_window, author_counts>>)]_vars

\* C19 witness: the producer sent a message, then the file was deleted and
\* the exit requested inside generate_messages closed the producer once
C19_Witness ==
    /\ program = "producer" /\ pc = "closed"
    /\ exit_code = 1 /\ ~file_exists /\ Len(sent) >= 1
    /\ client = "closed" /\ closes = 1

====
